---------------------------- MODULE Spec2Model ----------------------------
(***************************************************************************)
(* A model of the VeriGreen claim-verification backend and of the ledger   *)
(* contract it commits to:                                                 *)
(*   packages/backend/src/services/VerifierService.ts   (checkGreennes)    *)
(*   packages/backend/src/services/EntropyService.ts    (randomness)       *)
(*   packages/backend/src/services/ContractListener.ts  (verifyClaim)      *)
(*   packages/foundry/src/VeriGreen.sol                 (ledger)           *)
(*                                                                         *)
(* Health scores are floats in the source; the model keeps them as         *)
(* hundredths (0.57 is 57), which preserves every comparison the code      *)
(* makes.                                                                  *)
(***************************************************************************)
EXTENDS Integers, Sequences, FiniteSets, TLC

(***************************************************************************)
(* Bounds of the model.                                                    *)
(***************************************************************************)
MaxTiles == 2        \* longest grid handed to checkGreennes in PureSpec
MaxIndexes == 2      \* longest sample handed to checkGreennes in PureSpec
MaxIndexValue == 3   \* largest sample index handed to checkGreennes in PureSpec
MaxSeed == 2         \* largest generatedNumber handed to deriveNumbers in PureSpec
MaxCount == 2        \* largest count handed to deriveNumbers in PureSpec
MaxDraw == 2         \* Math.random draws are 0..MaxDraw and RandomRange - 1

(***************************************************************************)
(* Program constants.                                                      *)
(***************************************************************************)
Threshold == 57      \* health_score > 0.57, in hundredths
RandomRange == 1000  \* Math.floor(Math.random() * 1000)
SampleCount == 7     \* deriveNumbers(randomNumber, 7)
NaN == -1            \* the JavaScript value NaN (x % 0); no index is negative

\* The health scores the external verifier may report: below, at and above
\* the threshold.
HealthScores == {30, Threshold, 80}

\* Math.floor(Math.random() * 1000): an integer of 0..999, here one of a few.
DrawValues == (0..MaxDraw) \cup {RandomRange - 1}

RECURSIVE SeqsUpTo(_, _)
\* All sequences over S of length at most n.
SeqsUpTo(S, n) ==
  IF n = 0 THEN {<<>>}
  ELSE LET shorter == SeqsUpTo(S, n - 1)
       IN  shorter \cup {Append(s, x) : s \in {t \in shorter : Len(t) = n - 1}, x \in S}

\* All sequences over S of length exactly n.
SeqsOfLen(S, n) == [1..n -> S]

(***************************************************************************)
(* JavaScript arithmetic.                                                  *)
(***************************************************************************)
\* a % b on non-negative integers: NaN when b is 0 or an operand is NaN.
JsMod(a, b) == IF a = NaN \/ b = NaN \/ b = 0 THEN NaN ELSE a % b

\* a > b: false when an operand is NaN.
JsGreater(a, b) == a # NaN /\ b # NaN /\ a > b

(***************************************************************************)
(* VerifierService.checkGreennes(indexes, tiles).  tiles is the sequence   *)
(* of health scores of the grid (tiles[k].health_score is tiles[k + 1]     *)
(* here, TLA+ sequences starting at 1).                                    *)
(***************************************************************************)
\* let tileIndex = indexes[index]; if (tileIndex > tiles.length) reduce it.
ReducedTileIndex(tileIndex, tiles) ==
  IF JsGreater(tileIndex, Len(tiles)) THEN JsMod(tileIndex, Len(tiles)) ELSE tileIndex

\* The position of the cell the loop body reads, tiles[index]: the loop counter,
\* not the tileIndex computed just before.
TileRead(index, tileIndex) == index

\* The mutant of CheckCell: the comparison with the threshold is reversed.
CheckCellBelow(acc, k, tiles) ==
  IF acc.threw \/ ~acc.valid THEN acc
  ELSE IF k = NaN \/ k < 0 \/ k >= Len(tiles) THEN [threw |-> TRUE, valid |-> FALSE]
  ELSE [threw |-> FALSE, valid |-> tiles[k + 1] < Threshold]

\* One evaluation of `valid && tiles[k].health_score > 0.57`: the right operand
\* is evaluated only when valid is true, and throws a TypeError when tiles[k]
\* is undefined.
CheckCell(acc, k, tiles) ==
  IF acc.threw \/ ~acc.valid THEN acc
  ELSE IF k = NaN \/ k < 0 \/ k >= Len(tiles) THEN [threw |-> TRUE, valid |-> FALSE]
  ELSE [threw |-> FALSE, valid |-> tiles[k + 1] > Threshold]

RECURSIVE CheckLoop(_, _, _, _)
CheckLoop(acc, index, indexes, tiles) ==
  IF index >= Len(indexes) THEN acc
  ELSE LET tileIndex == ReducedTileIndex(indexes[index + 1], tiles)
       IN  CheckLoop(CheckCell(acc, TileRead(index, tileIndex), tiles),
                     index + 1, indexes, tiles)

\* The result: [threw |-> TRUE] for a TypeError, else the boolean returned.
checkGreennes(indexes, tiles) ==
  CheckLoop([threw |-> FALSE, valid |-> TRUE], 0, indexes, tiles)

(***************************************************************************)
(* EntropyService.deriveNumbers(generatedNumber, count).  Math.random is   *)
(* not seeded by anything the caller controls: the draws of one call are   *)
(* an input of the call, chosen anew each time.                            *)
(***************************************************************************)
\* derivedNumbers.push(random % generatedNumber)
DerivedNumber(random, generatedNumber) == JsMod(random, generatedNumber)

deriveNumbers(generatedNumber, count, draws) ==
  [i \in 1..count |-> DerivedNumber(draws[i], generatedNumber)]

(***************************************************************************)
(* The ledger: VeriGreen.sol and the GreenToken it mints.                  *)
(***************************************************************************)
Accounts == {"alice"}
ForestIds == {"f1", "f2"}
NoForest == ""       \* userLands[account] before any verifyLand: the empty string

\* The addresses that call, or are, the contracts.
VeriGreenAddress == "veriGreen"   \* the VeriGreen contract itself
OwnerAddress == "owner"           \* Ownable owner of VeriGreen; the backend's wallet
VerifierAddress == "greenVerifier"
TokenOwnerAddress == "tokenOwner"
OtherAddress == "other"

\* The bounding box a parcel is claimed with: the decimal strings coordinate1..
\* coordinate4 of LandClaimed, kept in hundredths ("10.50" is 1050).
BoundingBox(forestId) ==
  IF forestId = "f1" THEN <<1050, 1150, 1250, 1350>> ELSE <<2050, 2150, 2250, 2350>>

\* parseInt of a non-negative decimal string: the digits before the point.
ParseInt(coordinate) == coordinate \div 100

NoHash == <<>>       \* the empty string '' of tileHash and transactionHash

\* keccak256(abi.encode(c1.toString(), ..., c4.toString())): injective on the boxes.
TileHash(coordinates) == <<"keccak256", coordinates>>

\* GreenToken.onlyOwnerAndVeriGreen:
\*   require(owner() != msg.sender && msg.sender != veriGreen, "Not authorized!")
MintReverts(tokenVeriGreen_, sender) ==
  ~(TokenOwnerAddress # sender /\ sender # tokenVeriGreen_)

\* The mutant of TilesRevertReason: the parcel is not compared with userLands.
TilesRevertReasonAnyParcel(userLands_, tokenVeriGreen_, sender, account, forestId) ==
  IF sender # OwnerAddress THEN "OwnableUnauthorizedAccount"
  ELSE IF MintReverts(tokenVeriGreen_, VeriGreenAddress) THEN "Not authorized!"
  ELSE ""

\* VeriGreen.verifyTilesInLand: the error it reverts with, "" when it succeeds.
TilesRevertReason(userLands_, tokenVeriGreen_, sender, account, forestId) ==
  IF sender # OwnerAddress THEN "OwnableUnauthorizedAccount"
  ELSE IF userLands_[account] # forestId THEN "LandIsNotVerified"
  ELSE IF MintReverts(tokenVeriGreen_, VeriGreenAddress) THEN "Not authorized!"
  ELSE ""

(***************************************************************************)
(* The backend.                                                            *)
(***************************************************************************)
MaxPipelines == 2    \* verifyClaim invocations (LandClaimed deliveries) modelled

Pipelines == 1..MaxPipelines

\* The grids the external verifier answers with in Spec: health scores of
\* forest_grid, one long enough for the 7 cells checkGreennes reads and passing,
\* one with a failing cell, one shorter than the sample.
AllPassGrid == [i \in 1..SampleCount |-> 80]
OneFailGrid == [i \in 1..SampleCount |-> IF i = 2 THEN 30 ELSE 80]
ShortGrid == <<80, 80>>
Grids == {AllPassGrid, OneFailGrid, ShortGrid}

\* The Math.random streams of one deriveNumbers call in Spec.
DrawStreams == {[i \in 1..SampleCount |-> 0], [i \in 1..SampleCount |-> i + 2]}

\* The values the beacon answers a request of upper bound maxNumber with: the
\* least and the greatest of 0..maxNumber-1.
BeaconValues(maxNumber) == {v \in {0, maxNumber - 1} : 0 <= v /\ v < maxNumber}

\* The locals of one verifyClaim invocation (randomNumber is <<>> until the
\* promise resolves), with two records of what happened to it: resolvedBy, the
\* sequence number of the event that resolved its promise (the callback's num,
\* which the code ignores), and evaluated, whether checkGreennes returned.
IdlePipe ==
  [pc |-> "idle", owner |-> "", forestId |-> "", coordinates |-> <<>>,
   forest_grid |-> <<>>, randomNumber |-> <<>>, resolvedBy |-> <<>>, indexes |-> <<>>,
   valid |-> FALSE, evaluated |-> FALSE, tileHash |-> NoHash,
   transactionHash |-> NoHash, error |-> ""]

\* The mutant of AfterVerdict: the commit is made whatever the verdict.
AfterVerdictAlwaysCommit(valid) == "verifyTilesInLand"

\* A second mutant of AfterVerdict: the record is written without any commit.
AfterVerdictSkipCommit(valid) == "create"

\* if (valid) { ... await this.contract.verifyTilesInLand(...) } ; otherwise
\* the next await is prisma.submission.create.
AfterVerdict(valid) == IF valid THEN "verifyTilesInLand" ELSE "create"

(***************************************************************************)
(* State.                                                                  *)
(***************************************************************************)
VARIABLES
  \* PureSpec: the arguments and results of calls of the pure functions
  indexes,          \* checkGreennes: the sample
  tiles,            \* checkGreennes: the grid's health scores
  verdict,          \* <<>> before the call, <<result>> after it
  generatedNumber,  \* deriveNumbers: the seed
  count,            \* deriveNumbers: how many indices
  derived,          \* the results of the deriveNumbers calls made so far
  raisedVerdict,  \* the checkGreennes call repeated with one cell's score raised
  \* the ledger
  userLands,                   \* VeriGreen.userLands
  verifiedUserLandsWithTiles,  \* VeriGreen.verifiedUserLandsWithTiles
  tokenVeriGreen,              \* GreenToken.veriGreen
  minted,                      \* GreenToken: how many rewards each account was minted
  landClaimed,                 \* the LandClaimed events emitted
  landTilesVerified,           \* the LandTilesVerified events emitted, in order
  \* the randomness beacon
  beaconPending,          \* requests accepted and not yet answered
  randomNumberRequested,  \* the RandomNumberRequested events emitted: the
                          \* userRandomNumber of each sequence number
  randomNumberGenerated,  \* the RandomNumberGenerated events emitted
  \* the backend
  pipe,             \* the verifyClaim invocations
  started,          \* how many LandClaimed deliveries were handled
  numberHashes,     \* EntropyService.numberHashes: the entries of the Map
  rngListeners,     \* the callbacks listening to RandomNumberGenerated
  submissions,      \* the Submission collection, in insertion order
  verifierResponses,  \* the VerifierResponse collection, in insertion order
  claimsTable,      \* the Claim collection, in insertion order
  \* ContractListenerService
  isConnected,        \* ContractListenerService.isConnected
  reconnectAttempts,  \* ContractListenerService.reconnectAttempts
  wsProvider,         \* which provider wsProvider and wsContract refer to
  providers,          \* every WebSocketProvider created: its socket, the 'error'
                      \* and 'close' events it has yet to emit, and how many
                      \* times each callback is attached to its contract
  created,            \* how many providers were created
  eventListeners,     \* the callbacks stored in eventListeners
  reconnectTimers,    \* setTimeout callbacks scheduled and not yet run
  awaitingDestroy,    \* callbacks suspended at `await this.wsProvider.destroy()`
  awaitingInit,       \* callbacks suspended at `await this.initializeWebSocket()`
  failedInARow,       \* reconnect attempts that failed since the last success
  fatalThrown,        \* WS_MAX_RECONNECT_ERROR was thrown
  emitted,            \* how many contract events the chain emitted
  invocations,        \* how many times the last event invoked each callback
  highest,            \* the latest event each callback was invoked with
  \* calls of the ledger's contracts by arbitrary senders
  lastCall,           \* the last call made and the error it reverted with
  calls,              \* how many calls were made
  \* GreenWebVerifier (ERC721)
  landRecords,            \* GreenWebVerifier.landRecords
  landIdToTokenId,        \* GreenWebVerifier.landIdToTokenId
  tokenOwner,             \* ERC721 _owners: the owner of each token id
  landOwnershipVerified,  \* the LandOwnershipVerified events emitted, in order
  lastVerify,             \* the last verify call and the error it reverted with
  \* VeriGreenService.handleEvent and the ContractEvent collection
  contractEvents,     \* the ContractEvent collection, in insertion order
  handler             \* the handleEvent invocations

pureVars == <<indexes, tiles, verdict, raisedVerdict, generatedNumber, count, derived>>
ledgerVars == <<userLands, verifiedUserLandsWithTiles, tokenVeriGreen, minted,
                landClaimed, landTilesVerified>>
beaconVars == <<beaconPending, randomNumberRequested, randomNumberGenerated>>
backendVars == <<pipe, started, numberHashes, rngListeners, submissions, verifierResponses,
                 claimsTable>>

listenerVars == <<isConnected, reconnectAttempts, wsProvider, providers, created,
                  eventListeners, reconnectTimers, awaitingDestroy, awaitingInit,
                  failedInARow, fatalThrown, emitted, invocations, highest>>

callVars == <<lastCall, calls>>
webVerifierVars == <<landRecords, landIdToTokenId, tokenOwner, landOwnershipVerified,
                     lastVerify>>
eventStoreVars == <<contractEvents, handler>>

vars == <<pureVars, ledgerVars, beaconVars, backendVars, listenerVars, callVars,
          webVerifierVars, eventStoreVars>>

(***************************************************************************)
(* ContractListenerService: the WebSocket transport and the callbacks.      *)
(***************************************************************************)
MAX_RECONNECT_ATTEMPTS == 5

MaxProviders == 3    \* WebSocketProviders created, the constructor's included
MaxEvents == 2       \* contract events emitted by the chain

Callbacks == {"cb1"}
ProviderIds == 1..MaxProviders
Signals == {"error", "close"}

NotAttached == [cb \in Callbacks |-> 0]
NoProvider == [socket |-> "none", signals |-> {}, attached |-> NotAttached, delivered |-> 0]
OpenProvider == [socket |-> "open", signals |-> {}, attached |-> NotAttached, delivered |-> 0]

\* The service after its constructor ran with a wsUrl: initializeWebSocket
\* created the first provider; nothing is registered.
ListenerIdle ==
  /\ isConnected = TRUE
  /\ reconnectAttempts = 0
  /\ wsProvider = 1
  /\ providers = [id \in ProviderIds |-> IF id = 1 THEN OpenProvider ELSE NoProvider]
  /\ created = 1
  /\ eventListeners = {}
  /\ reconnectTimers = 0
  /\ awaitingDestroy = 0
  /\ awaitingInit = 0
  /\ failedInARow = 0
  /\ fatalThrown = FALSE
  /\ emitted = 0
  /\ invocations = NotAttached
  /\ highest = NotAttached

(***************************************************************************)
(* Calls of VeriGreen and GreenToken, GreenWebVerifier, handleEvent: the     *)
(* values their specifications range over and their states at start.        *)
(***************************************************************************)
NoCall == <<>>

\* No call of the ledger's contracts was recorded.
CallIdle == lastCall = NoCall /\ calls = 0

LandIds == {"LAND-1", "LAND-2"}
Holders == {"alice", "bob"}
ZeroAddress == "0x0"

\* uint256(keccak256(abi.encodePacked(landId))): injective on the land ids.
TokenId(landId) == <<"keccak256", landId>>
TokenIds == {TokenId(landId) : landId \in LandIds}

NoRecord == <<>>     \* the zero LandOwnership of an unwritten landRecords slot
NoTokenId == <<>>    \* the zero of an unwritten landIdToTokenId slot

\* GreenWebVerifier after its constructor: no token, no record.
WebVerifierIdle ==
  /\ landRecords = [t \in TokenIds |-> NoRecord]
  /\ landIdToTokenId = [l \in LandIds |-> NoTokenId]
  /\ tokenOwner = [t \in TokenIds |-> ZeroAddress]
  /\ landOwnershipVerified = <<>>
  /\ lastVerify = NoCall

MaxDeliveries == 2   \* handleEvent invocations (event deliveries) modelled

Deliveries == 1..MaxDeliveries
IdleHandler == [pc |-> "idle", event |-> <<>>, existingEvent |-> FALSE]

\* The ContractEvent collection is empty and no handleEvent is running.
EventStoreIdle ==
  /\ contractEvents = <<>>
  /\ handler = [d \in Deliveries |-> IdleHandler]

\* The state of everything the pipeline's specifications leave alone.
OthersIdle == CallIdle /\ WebVerifierIdle /\ EventStoreIdle

\* The state of the pure-function calls while the pipeline runs.
PureIdle ==
  /\ indexes = <<>>
  /\ tiles = <<>>
  /\ verdict = <<>>
  /\ raisedVerdict = <<>>
  /\ generatedNumber = 0
  /\ count = 0
  /\ derived = <<>>

\* The state after construction: no parcel registered, nothing listening.
SystemIdle ==
  /\ userLands = [a \in Accounts |-> NoForest]
  /\ verifiedUserLandsWithTiles = [a \in Accounts |-> [f \in ForestIds |-> NoHash]]
  /\ minted = [a \in Accounts |-> 0]
  /\ landClaimed = {}
  /\ landTilesVerified = <<>>
  /\ beaconPending = {}
  /\ randomNumberRequested = <<>>
  /\ randomNumberGenerated = {}
  /\ pipe = [p \in Pipelines |-> IdlePipe]
  /\ started = 0
  /\ numberHashes = {}
  /\ rngListeners = {}
  /\ submissions = <<>>
  /\ verifierResponses = <<>>
  /\ claimsTable = <<>>

(***************************************************************************)
(* PureSpec: the pure functions applied to inputs drawn from bounded sets. *)
(***************************************************************************)
PureInit ==
  /\ \/ /\ indexes \in SeqsUpTo(0..MaxIndexValue, MaxIndexes)
        /\ tiles \in SeqsUpTo(HealthScores, MaxTiles) \ {<<>>}
        /\ generatedNumber = 0
        /\ count = 0
     \/ /\ indexes = <<>>
        /\ tiles = <<80>>
        /\ generatedNumber \in 0..MaxSeed
        /\ count \in 0..MaxCount
  /\ verdict = <<>>
  /\ raisedVerdict = <<>>
  /\ derived = <<>>
  /\ SystemIdle
  /\ ListenerIdle
  /\ OthersIdle
  /\ tokenVeriGreen = VeriGreenAddress

\* One call checkGreennes(indexes, tiles).
CallCheckGreennes ==
  /\ verdict = <<>>
  /\ verdict' = <<checkGreennes(indexes, tiles)>>
  /\ UNCHANGED <<indexes, tiles, raisedVerdict, generatedNumber, count, derived>>
  /\ UNCHANGED <<ledgerVars, beaconVars, backendVars, listenerVars>>
  /\ UNCHANGED <<callVars, webVerifierVars, eventStoreVars>>

\* One call deriveNumbers(generatedNumber, count); at most two are made.
CallDeriveNumbers ==
  /\ Len(derived) < 2
  /\ \E draws \in SeqsOfLen(DrawValues, count) :
       derived' = Append(derived, deriveNumbers(generatedNumber, count, draws))
  /\ UNCHANGED <<indexes, tiles, verdict, raisedVerdict, generatedNumber, count>>
  /\ UNCHANGED <<ledgerVars, beaconVars, backendVars, listenerVars>>
  /\ UNCHANGED <<callVars, webVerifierVars, eventStoreVars>>

\* The health scores a cell's score is raised to.
RaisedScores == HealthScores \cup {100}

\* checkGreennes(indexes, tiles) called again after the verifier's grid has the
\* health_score of the cell at position cell raised to score.
CallCheckGreennesRaised(cell, score) ==
  /\ verdict # <<>>
  /\ raisedVerdict = <<>>
  /\ cell \in 0..(Len(tiles) - 1)
  /\ score >= tiles[cell + 1]
  /\ raisedVerdict' = <<[cell |-> cell, health_score |-> score,
                         result |-> checkGreennes(indexes, [tiles EXCEPT ![cell + 1] = score])]>>
  /\ UNCHANGED <<indexes, tiles, verdict, generatedNumber, count, derived>>
  /\ UNCHANGED <<ledgerVars, beaconVars, backendVars, listenerVars>>
  /\ UNCHANGED <<callVars, webVerifierVars, eventStoreVars>>

PureNext ==
  \/ CallCheckGreennes
  \/ CallDeriveNumbers
  \/ \E cell \in 0..(MaxTiles - 1), score \in RaisedScores :
       CallCheckGreennesRaised(cell, score)

PureSpec == PureInit /\ [][PureNext]_vars

(***************************************************************************)
(* Spec: the ledger, the beacon and the backend's claim pipelines.         *)
(***************************************************************************)
Init ==
  /\ PureIdle
  /\ SystemIdle
  /\ ListenerIdle
  /\ OthersIdle
  /\ tokenVeriGreen \in {VeriGreenAddress, OtherAddress}

\* The mutant of VerifyLandRevertReason: any sender may register a parcel.
VerifyLandRevertReasonAnySender(sender) == ""

\* VeriGreen.onlyVerifier: the error verifyLand reverts with, "" when it runs.
VerifyLandRevertReason(sender) ==
  IF sender # VerifierAddress THEN "NotValidProver" ELSE ""

\* The body of verifyLand: userLands[account] = forestId, LandClaimed emitted.
LandRegistered(account, forestId) ==
  /\ userLands' = [userLands EXCEPT ![account] = forestId]
  /\ landClaimed' = landClaimed \cup
       {[owner |-> account, forestId |-> forestId, coordinates |-> BoundingBox(forestId)]}
  /\ UNCHANGED <<verifiedUserLandsWithTiles, tokenVeriGreen, minted, landTilesVerified>>

\* VeriGreen.verifyLand(account, forestId, c1..c4), called by greenVerifier.
VerifyLand(sender, account, forestId) ==
  /\ VerifyLandRevertReason(sender) = ""
  /\ LandRegistered(account, forestId)
  /\ UNCHANGED <<callVars, webVerifierVars, eventStoreVars, listenerVars, pureVars, beaconVars, backendVars>>

\* The transaction of a successful verifyTilesInLand(account, forestId, tilesHash).
VerifyTilesInLand(account, forestId, tilesHash) ==
  /\ verifiedUserLandsWithTiles' =
       [verifiedUserLandsWithTiles EXCEPT ![account][forestId] = tilesHash]
  /\ minted' = [minted EXCEPT ![account] = @ + 1]
  /\ landTilesVerified' = Append(landTilesVerified,
       [owner |-> account, forestId |-> forestId, tilesHash |-> tilesHash])
  /\ UNCHANGED <<userLands, tokenVeriGreen, landClaimed>>

\* listenLandClaimed hands its callback parseInt of each coordinate string.
ParsedCoordinates(coordinates) ==
  [i \in DOMAIN coordinates |-> ParseInt(coordinates[i])]

\* startListeningLandClaim's handler for one delivery of a LandClaimed event:
\* verifyClaim starts and suspends in getTiles; the Claim row is created.
LandClaimedDelivered(e) ==
  /\ started < MaxPipelines
  /\ e \in landClaimed
  /\ started' = started + 1
  /\ pipe' = [pipe EXCEPT ![started + 1] =
       [IdlePipe EXCEPT !.pc = "getTiles", !.owner = e.owner, !.forestId = e.forestId,
                        !.coordinates = ParsedCoordinates(e.coordinates)]]
  /\ claimsTable' = Append(claimsTable,
       [forest_id |-> e.forestId, user_address |-> e.owner,
        coordinates |-> ParsedCoordinates(e.coordinates)])
  /\ UNCHANGED <<numberHashes, rngListeners, submissions, verifierResponses>>
  /\ UNCHANGED <<callVars, webVerifierVars, eventStoreVars, listenerVars, pureVars, ledgerVars, beaconVars>>

\* verifyClaim has returned: its locals are gone; what is kept is the claim it
\* was called for, the verdict it reached and the error it caught.
Returned(locals, error) ==
  [IdlePipe EXCEPT !.pc = "done", !.owner = locals.owner, !.forestId = locals.forestId,
                   !.coordinates = locals.coordinates, !.valid = locals.valid,
                   !.evaluated = locals.evaluated, !.error = error]

\* The catch block of verifyClaim: the error is logged and the call returns.
Caught(p, error) ==
  pipe' = [pipe EXCEPT ![p] = Returned(@, error)]

\* getTiles resolves with the verifier's grid; getRandomNumber(grid.length) draws
\* its nonce (a fresh key of numberHashes), stores it and sends the request.
GetTilesReturns(p, grid) ==
  /\ pipe[p].pc = "getTiles"
  /\ pipe' = [pipe EXCEPT ![p] =
       [@ EXCEPT !.pc = "requestRandomNumber", !.forest_grid = grid]]
  /\ numberHashes' = numberHashes \cup {[userRandomNumber |-> p, value |-> -1]}
  /\ UNCHANGED <<started, rngListeners, submissions, verifierResponses,
               claimsTable>>
  /\ UNCHANGED <<callVars, webVerifierVars, eventStoreVars, listenerVars, pureVars, ledgerVars, beaconVars>>

\* getTiles rejects (the verifier is unreachable or answers an error).
GetTilesFails(p) ==
  /\ pipe[p].pc = "getTiles"
  /\ Caught(p, "getTiles")
  /\ UNCHANGED <<started, numberHashes, rngListeners, submissions, verifierResponses,
               claimsTable>>
  /\ UNCHANGED <<callVars, webVerifierVars, eventStoreVars, listenerVars, pureVars, ledgerVars, beaconVars>>

\* The beacon accepts requestRandomNumber(userRandomNumber, maxValue).
RequestAccepted(p) ==
  /\ pipe[p].pc = "requestRandomNumber"
  /\ beaconPending' = beaconPending \cup
       {[sequenceNumber |-> Len(randomNumberRequested) + 1, userRandomNumber |-> p,
         maxNumber |-> Len(pipe[p].forest_grid)]}
  /\ randomNumberRequested' = Append(randomNumberRequested, p)
  /\ UNCHANGED randomNumberGenerated
  /\ pipe' = [pipe EXCEPT ![p] = [@ EXCEPT !.pc = "startListeners"]]
  /\ UNCHANGED <<started, numberHashes, rngListeners, submissions, verifierResponses,
               claimsTable>>
  /\ UNCHANGED <<callVars, webVerifierVars, eventStoreVars, listenerVars, pureVars, ledgerVars>>

\* The beacon rejects the request synchronously.
RequestRejected(p) ==
  /\ pipe[p].pc = "requestRandomNumber"
  /\ Caught(p, "requestRandomNumber")
  /\ UNCHANGED <<started, numberHashes, rngListeners, submissions, verifierResponses,
               claimsTable>>
  /\ UNCHANGED <<callVars, webVerifierVars, eventStoreVars, listenerVars, pureVars, ledgerVars, beaconVars>>

\* startListenersAndGetNumber: a new callback listens to RandomNumberGenerated.
StartListeners(p) ==
  /\ pipe[p].pc = "startListeners"
  /\ rngListeners' = rngListeners \cup {p}
  /\ pipe' = [pipe EXCEPT ![p] = [@ EXCEPT !.pc = "awaitRandom"]]
  /\ UNCHANGED <<started, numberHashes, submissions, verifierResponses, claimsTable>>
  /\ UNCHANGED <<callVars, webVerifierVars, eventStoreVars, listenerVars, pureVars, ledgerVars, beaconVars>>

\* The callback of listenRandomNumberGenerated for the event (num, generatedNum):
\* resolve(parseInt(generatedNum.toString())).  A promise settles once; a later
\* resolve is ignored.  parseInt is exact on the values of the model.
Resolved(q, num, generatedNum) ==
  IF pipe[q].pc = "awaitRandom"
  THEN [pipe[q] EXCEPT !.pc = "resolved", !.randomNumber = <<generatedNum>>,
                       !.resolvedBy = <<num>>]
  ELSE pipe[q]

\* The beacon answers request r: RandomNumberGenerated(r.sequenceNumber, value)
\* is emitted and every listening callback runs.
BeaconGenerates(r, value) ==
  /\ r \in beaconPending
  /\ beaconPending' = beaconPending \ {r}
  /\ randomNumberGenerated' = randomNumberGenerated \cup
       {[sequenceNumber |-> r.sequenceNumber, randomNumber |-> value]}
  /\ pipe' = [q \in Pipelines |->
       IF q \in rngListeners THEN Resolved(q, r.sequenceNumber, value) ELSE pipe[q]]
  /\ UNCHANGED randomNumberRequested
  /\ UNCHANGED <<started, numberHashes, rngListeners, submissions, verifierResponses,
               claimsTable>>
  /\ UNCHANGED <<callVars, webVerifierVars, eventStoreVars, listenerVars, pureVars, ledgerVars>>

\* verifyClaim resumes with randomNumber: deriveNumbers, checkGreennes, and the
\* next await (the ledger commit when valid, the record otherwise).
Evaluate(p, draws) ==
  /\ pipe[p].pc = "resolved"
  /\ LET sample == deriveNumbers(pipe[p].randomNumber[1], SampleCount, draws)
         result == checkGreennes(sample, pipe[p].forest_grid)
     IN  pipe' = [pipe EXCEPT ![p] =
           IF result.threw
           THEN Returned(@, "TypeError")
           ELSE [@ EXCEPT !.pc = AfterVerdict(result.valid), !.indexes = sample,
                          !.valid = result.valid, !.evaluated = TRUE,
                          !.tileHash = IF result.valid THEN TileHash(pipe[p].coordinates)
                                       ELSE NoHash]]
  /\ UNCHANGED <<started, numberHashes, rngListeners, submissions, verifierResponses,
               claimsTable>>
  /\ UNCHANGED <<callVars, webVerifierVars, eventStoreVars, listenerVars, pureVars, ledgerVars, beaconVars>>

\* contract.verifyTilesInLand(owner, forestId, tileHash) and tx.wait(): the
\* ledger executes the call; a revert is thrown to verifyClaim.
LedgerCommitReturns(p) ==
  /\ pipe[p].pc = "verifyTilesInLand"
  /\ LET reason == TilesRevertReason(userLands, tokenVeriGreen, OwnerAddress,
                                     pipe[p].owner, pipe[p].forestId)
     IN  IF reason = ""
         THEN /\ VerifyTilesInLand(pipe[p].owner, pipe[p].forestId, pipe[p].tileHash)
              /\ pipe' = [pipe EXCEPT ![p] =
                   [@ EXCEPT !.pc = "create",
                             !.transactionHash = <<"tx", Len(landTilesVerified) + 1>>]]
         ELSE /\ Caught(p, reason)
              /\ UNCHANGED ledgerVars
  /\ UNCHANGED <<started, numberHashes, rngListeners, submissions, verifierResponses,
               claimsTable>>
  /\ UNCHANGED <<callVars, webVerifierVars, eventStoreVars, listenerVars, pureVars, beaconVars>>

\* The transaction never reaches the ledger (network, nonce): the call rejects.
LedgerCommitFails(p) ==
  /\ pipe[p].pc = "verifyTilesInLand"
  /\ Caught(p, "transport")
  /\ UNCHANGED <<started, numberHashes, rngListeners, submissions, verifierResponses,
               claimsTable>>
  /\ UNCHANGED <<callVars, webVerifierVars, eventStoreVars, listenerVars, pureVars, ledgerVars, beaconVars>>

\* The VerifierResponse document the nested create writes for invocation p
\* (of the verifier's answer the model keeps the grid).
VerifierResponseOf(p) == [forest_grid |-> pipe[p].forest_grid]

\* The mutant of SubmissionOf: the transaction reference is filled in whether
\* or not a commit was made.
SubmissionOfEagerHash(p) ==
  [user_address |-> pipe[p].owner,
   coordinates |-> pipe[p].coordinates,
   selectedTiles |-> pipe[p].indexes,
   tileHash |-> pipe[p].tileHash,
   valid |-> pipe[p].valid,
   transactionHash |-> <<"tx", Len(landTilesVerified)>>,
   generatedRandomNumber |-> pipe[p].randomNumber[1],
   verifierResponseId |-> Len(verifierResponses) + 1]

\* The Submission document prisma.submission.create writes for invocation p;
\* verifierResponseId relates it to the VerifierResponse created with it.
SubmissionOf(p) ==
  [user_address |-> pipe[p].owner,
   coordinates |-> pipe[p].coordinates,
   selectedTiles |-> pipe[p].indexes,
   tileHash |-> pipe[p].tileHash,
   valid |-> pipe[p].valid,
   transactionHash |-> pipe[p].transactionHash,
   generatedRandomNumber |-> pipe[p].randomNumber[1],
   verifierResponseId |-> Len(verifierResponses) + 1]

\* The mutant of FailedCreateLeaves: the nested document survives the failure.
FailedCreateLeavesResponse(p) == Append(verifierResponses, VerifierResponseOf(p))

\* The VerifierResponse collection after a prisma.submission.create that
\* rejects: the create and its nested create are one write, so nothing of it
\* is stored.
FailedCreateLeaves(p) == verifierResponses

\* prisma.submission.create resolves: the row is stored and verifyClaim returns.
CreateSucceeds(p) ==
  /\ pipe[p].pc = "create"
  /\ submissions' = Append(submissions, SubmissionOf(p))
  /\ verifierResponses' = Append(verifierResponses, VerifierResponseOf(p))
  /\ pipe' = [pipe EXCEPT ![p] = Returned(@, "")]
  /\ UNCHANGED <<started, numberHashes, rngListeners, claimsTable>>
  /\ UNCHANGED <<callVars, webVerifierVars, eventStoreVars, listenerVars, pureVars, ledgerVars, beaconVars>>

\* prisma.submission.create rejects (the database is unreachable).
CreateFails(p) ==
  /\ pipe[p].pc = "create"
  /\ Caught(p, "create")
  /\ verifierResponses' = FailedCreateLeaves(p)
  /\ UNCHANGED <<started, numberHashes, rngListeners, submissions, claimsTable>>
  /\ UNCHANGED <<callVars, webVerifierVars, eventStoreVars, listenerVars, pureVars, ledgerVars, beaconVars>>

\* The steps of verifyClaim invocation p, and of the services answering it
\* (the verifier, the beacon's request entry point, the ledger, the database).
PipelineStep(p) ==
  \/ \E grid \in Grids : GetTilesReturns(p, grid)
  \/ GetTilesFails(p)
  \/ RequestAccepted(p)
  \/ RequestRejected(p)
  \/ StartListeners(p)
  \/ \E draws \in DrawStreams : Evaluate(p, draws)
  \/ LedgerCommitReturns(p)
  \/ LedgerCommitFails(p)
  \/ CreateSucceeds(p)
  \/ CreateFails(p)

BackendNext ==
  \/ \E e \in landClaimed : LandClaimedDelivered(e)
  \/ \E p \in Pipelines : PipelineStep(p)

\* The steps of the environment: the verifier registers parcels, the beacon answers.
EnvironmentNext ==
  \/ \E a \in Accounts, f \in ForestIds : VerifyLand(VerifierAddress, a, f)
  \/ \E r \in beaconPending : \E value \in BeaconValues(r.maxNumber) :
       BeaconGenerates(r, value)

Next == BackendNext \/ EnvironmentNext

Spec == Init /\ [][Next]_vars

\* The event loop runs every continuation that is ready, and the services an
\* invocation awaits answer it with a result or an error.  Nothing obliges the
\* beacon to answer a request, nor the verifier to register parcels.
FairSpec == Spec /\ \A p \in Pipelines : WF_vars(PipelineStep(p))

(***************************************************************************)
(* ContractListenerService: reconnection and event dispatch.               *)
(***************************************************************************)
\* handleWebSocketError: a reconnect is scheduled while attempts remain,
\* otherwise WS_MAX_RECONNECT_ERROR is thrown (a rejection nobody awaits).
handleWebSocketError ==
  /\ isConnected' = FALSE
  /\ IF reconnectAttempts < MAX_RECONNECT_ATTEMPTS
     THEN /\ reconnectAttempts' = reconnectAttempts + 1
          /\ reconnectTimers' = reconnectTimers + 1
          /\ UNCHANGED fatalThrown
     ELSE /\ fatalThrown' = TRUE
          /\ UNCHANGED <<reconnectAttempts, reconnectTimers>>

\* The mutant of Attach: the callback is stored but never attached.
AttachNothing(ps, id, cbs) == ps

\* contract.on(eventName, wrapper) on the contract of provider id: every call
\* adds one more wrapper of the callback.  A destroyed provider keeps nothing.
Attach(ps, id, cbs) ==
  IF ps[id].socket = "destroyed" THEN ps
  ELSE [ps EXCEPT ![id].attached =
          [cb \in Callbacks |-> IF cb \in cbs THEN @[cb] + 1 ELSE @[cb]]]

\* listenToEvent(eventName, callback) called by the owner with a new callback:
\* it is stored in eventListeners and attached to wsContract.
listenToEvent(cb) ==
  /\ cb \notin eventListeners
  /\ eventListeners' = eventListeners \cup {cb}
  /\ providers' = Attach(providers, wsProvider, {cb})
  /\ UNCHANGED <<isConnected, reconnectAttempts, wsProvider, created, reconnectTimers,
                 awaitingDestroy, awaitingInit, failedInARow, fatalThrown, emitted,
                 invocations, highest>>
  /\ UNCHANGED <<pureVars, ledgerVars, beaconVars, backendVars>>
  /\ UNCHANGED <<callVars, webVerifierVars, eventStoreVars>>

\* stopListeningToEvent(eventName): removeAllListeners on wsContract, and the
\* event's entry of eventListeners is deleted.
stopListeningToEvent ==
  /\ eventListeners # {}
  /\ eventListeners' = {}
  /\ providers' = [providers EXCEPT ![wsProvider].attached = NotAttached]
  /\ UNCHANGED <<isConnected, reconnectAttempts, wsProvider, created, reconnectTimers,
                 awaitingDestroy, awaitingInit, failedInARow, fatalThrown, emitted,
                 invocations, highest>>
  /\ UNCHANGED <<pureVars, ledgerVars, beaconVars, backendVars>>
  /\ UNCHANGED <<callVars, webVerifierVars, eventStoreVars>>

\* The socket of provider id fails; the provider will emit the events of sigs.
TransportFails(id, sigs) ==
  /\ providers[id].socket = "open"
  /\ sigs # {}
  /\ providers' = [providers EXCEPT ![id].socket = "failed", ![id].signals = sigs]
  /\ UNCHANGED <<isConnected, reconnectAttempts, wsProvider, created, eventListeners,
                 reconnectTimers, awaitingDestroy, awaitingInit, failedInARow,
                 fatalThrown, emitted, invocations, highest>>
  /\ UNCHANGED <<pureVars, ledgerVars, beaconVars, backendVars>>
  /\ UNCHANGED <<callVars, webVerifierVars, eventStoreVars>>

\* setupWebSocketHandlers: the provider's 'error' handler and its 'close'
\* handler both call handleWebSocketError.
ProviderEmits(id, sig) ==
  /\ sig \in providers[id].signals
  /\ providers' = [providers EXCEPT ![id].signals = @ \ {sig}]
  /\ handleWebSocketError
  /\ UNCHANGED <<wsProvider, created, eventListeners, awaitingDestroy, awaitingInit,
                 failedInARow, emitted, invocations, highest>>
  /\ UNCHANGED <<pureVars, ledgerVars, beaconVars, backendVars>>
  /\ UNCHANGED <<callVars, webVerifierVars, eventStoreVars>>

\* A setTimeout callback of handleWebSocketError starts: it destroys
\* wsProvider and is suspended at the await.
ReconnectTimerFires ==
  /\ reconnectTimers > 0
  /\ reconnectTimers' = reconnectTimers - 1
  /\ providers' = [providers EXCEPT ![wsProvider] =
       [socket |-> "destroyed", signals |-> {}, attached |-> NotAttached,
        delivered |-> 0]]
  /\ awaitingDestroy' = awaitingDestroy + 1
  /\ UNCHANGED <<isConnected, reconnectAttempts, wsProvider, created, eventListeners,
                 awaitingInit, failedInARow, fatalThrown, emitted, invocations, highest>>
  /\ UNCHANGED <<pureVars, ledgerVars, beaconVars, backendVars>>
  /\ UNCHANGED <<callVars, webVerifierVars, eventStoreVars>>

\* The callback resumes and initializeWebSocket succeeds: a new provider and
\* contract, isConnected = true, reconnectAttempts = 0; the callback is
\* suspended at the await of initializeWebSocket's promise.
InitializeSucceeds ==
  /\ awaitingDestroy > 0
  /\ created < MaxProviders
  /\ awaitingDestroy' = awaitingDestroy - 1
  /\ created' = created + 1
  /\ wsProvider' = created + 1
  /\ providers' = [providers EXCEPT ![created + 1] =
       [OpenProvider EXCEPT !.delivered = emitted]]
  /\ isConnected' = TRUE
  /\ reconnectAttempts' = 0
  /\ failedInARow' = 0
  /\ awaitingInit' = awaitingInit + 1
  /\ UNCHANGED <<eventListeners, reconnectTimers, fatalThrown, emitted, invocations, highest>>
  /\ UNCHANGED <<pureVars, ledgerVars, beaconVars, backendVars>>
  /\ UNCHANGED <<callVars, webVerifierVars, eventStoreVars>>

\* The callback resumes and initializeWebSocket throws WS_INIT_ERROR: the catch
\* block logs it and calls handleWebSocketError.
InitializeFails ==
  /\ awaitingDestroy > 0
  /\ awaitingDestroy' = awaitingDestroy - 1
  /\ failedInARow' = failedInARow + 1
  /\ handleWebSocketError
  /\ UNCHANGED <<wsProvider, providers, created, eventListeners, awaitingInit, emitted,
                 invocations, highest>>
  /\ UNCHANGED <<pureVars, ledgerVars, beaconVars, backendVars>>
  /\ UNCHANGED <<callVars, webVerifierVars, eventStoreVars>>

\* The callback resumes after initializeWebSocket: reattachEventListeners calls
\* listenToEvent for every stored callback, on what wsContract is by now.
reattachEventListeners ==
  /\ awaitingInit > 0
  /\ awaitingInit' = awaitingInit - 1
  /\ providers' = Attach(providers, wsProvider, eventListeners)
  /\ UNCHANGED <<isConnected, reconnectAttempts, wsProvider, created, eventListeners,
                 reconnectTimers, awaitingDestroy, failedInARow, fatalThrown, emitted,
                 invocations, highest>>
  /\ UNCHANGED <<pureVars, ledgerVars, beaconVars, backendVars>>
  /\ UNCHANGED <<callVars, webVerifierVars, eventStoreVars>>

\* The chain emits one more event of the listened name.
ContractEventEmitted ==
  /\ emitted < MaxEvents
  /\ emitted' = emitted + 1
  /\ invocations' = NotAttached
  /\ UNCHANGED <<isConnected, reconnectAttempts, wsProvider, providers, created,
                 eventListeners, reconnectTimers, awaitingDestroy, awaitingInit,
                 failedInARow, fatalThrown, highest>>
  /\ UNCHANGED <<pureVars, ledgerVars, beaconVars, backendVars>>
  /\ UNCHANGED <<callVars, webVerifierVars, eventStoreVars>>

\* Provider id, its socket open, delivers the next event of its subscription:
\* every wrapper attached to its contract calls its callback with the event.
ProviderDelivers(id) ==
  /\ providers[id].socket = "open"
  /\ providers[id].delivered < emitted
  /\ LET event == providers[id].delivered + 1
     IN  /\ providers' = [providers EXCEPT ![id].delivered = event]
         /\ invocations' = [cb \in Callbacks |->
              IF event = emitted THEN invocations[cb] + providers[id].attached[cb]
              ELSE invocations[cb]]
         /\ highest' = [cb \in Callbacks |->
              IF providers[id].attached[cb] > 0 /\ event > highest[cb]
              THEN event ELSE highest[cb]]
  /\ UNCHANGED <<isConnected, reconnectAttempts, wsProvider, created, eventListeners,
                 reconnectTimers, awaitingDestroy, awaitingInit, failedInARow,
                 fatalThrown, emitted>>
  /\ UNCHANGED <<pureVars, ledgerVars, beaconVars, backendVars>>
  /\ UNCHANGED <<callVars, webVerifierVars, eventStoreVars>>

ListenerNext ==
  \/ \E cb \in Callbacks : listenToEvent(cb)
  \/ stopListeningToEvent
  \/ \E id \in ProviderIds : \E sigs \in SUBSET Signals : TransportFails(id, sigs)
  \/ \E id \in ProviderIds : \E sig \in Signals : ProviderEmits(id, sig)
  \/ ReconnectTimerFires
  \/ InitializeSucceeds
  \/ InitializeFails
  \/ reattachEventListeners
  \/ ContractEventEmitted
  \/ \E id \in ProviderIds : ProviderDelivers(id)

ListenerInit ==
  PureIdle /\ SystemIdle /\ ListenerIdle /\ OthersIdle /\ tokenVeriGreen = VeriGreenAddress

ListenerSpec == ListenerInit /\ [][ListenerNext]_vars

(***************************************************************************)
(* VeriGreen and GreenToken called by arbitrary senders.                   *)
(***************************************************************************)
MaxCalls == 4        \* calls of the contracts modelled

Senders == {OwnerAddress, VerifierAddress, TokenOwnerAddress, VeriGreenAddress,
            OtherAddress}

\* One call verifyLand(account, forestId, ...) by sender.
CallVerifyLand(sender, account, forestId) ==
  /\ calls < MaxCalls
  /\ calls' = calls + 1
  /\ LET reason == VerifyLandRevertReason(sender)
     IN  /\ lastCall' = [function |-> "verifyLand", sender |-> sender, account |-> account,
                         forestId |-> forestId, reason |-> reason]
         /\ IF reason = "" THEN LandRegistered(account, forestId)
            ELSE UNCHANGED ledgerVars
  /\ UNCHANGED <<pureVars, beaconVars, backendVars, listenerVars>>
  /\ UNCHANGED <<webVerifierVars, eventStoreVars>>

\* One call verifyTilesInLand(account, forestId, tilesHash) by sender.
CallVerifyTilesInLand(sender, account, forestId, tilesHash) ==
  /\ calls < MaxCalls
  /\ calls' = calls + 1
  /\ LET reason == TilesRevertReason(userLands, tokenVeriGreen, sender, account, forestId)
     IN  /\ lastCall' = [function |-> "verifyTilesInLand", sender |-> sender,
                         account |-> account, forestId |-> forestId, reason |-> reason]
         /\ IF reason = "" THEN VerifyTilesInLand(account, forestId, tilesHash)
            ELSE UNCHANGED ledgerVars
  /\ UNCHANGED <<pureVars, beaconVars, backendVars, listenerVars>>
  /\ UNCHANGED <<webVerifierVars, eventStoreVars>>

\* One call GreenToken.mint(to, rewardAmount) by sender.
CallMint(sender, to) ==
  /\ calls < MaxCalls
  /\ calls' = calls + 1
  /\ LET reason == IF MintReverts(tokenVeriGreen, sender) THEN "Not authorized!" ELSE ""
     IN  /\ lastCall' = [function |-> "mint", sender |-> sender, account |-> to,
                         forestId |-> NoForest, reason |-> reason]
         /\ IF reason = "" THEN /\ minted' = [minted EXCEPT ![to] = @ + 1]
                                /\ UNCHANGED <<userLands, verifiedUserLandsWithTiles,
                                               tokenVeriGreen, landClaimed,
                                               landTilesVerified>>
            ELSE UNCHANGED ledgerVars
  /\ UNCHANGED <<pureVars, beaconVars, backendVars, listenerVars>>
  /\ UNCHANGED <<webVerifierVars, eventStoreVars>>

LedgerNext ==
  \/ \E sender \in Senders, a \in Accounts, f \in ForestIds : CallVerifyLand(sender, a, f)
  \/ \E sender \in Senders, a \in Accounts, f \in ForestIds :
       CallVerifyTilesInLand(sender, a, f, TileHash(ParsedCoordinates(BoundingBox(f))))
  \/ \E sender \in Senders, a \in Accounts : CallMint(sender, a)

\* Both deployments: the token's veriGreen is this VeriGreen, or another address.
LedgerInit ==
  /\ PureIdle /\ SystemIdle /\ ListenerIdle /\ OthersIdle
  /\ tokenVeriGreen \in {VeriGreenAddress, OtherAddress}

LedgerSpec == LedgerInit /\ [][LedgerNext]_vars

(***************************************************************************)
(* GreenWebVerifier (ERC721).                                              *)
(***************************************************************************)
AlreadyVerified == "Land ownership already verified for this parcel"

\* The mutant of VerifyRevertReason: the require on _ownerOf is left out.
VerifyRevertReasonNoOwnerCheck(tokenOwner_, proofValid, landId, account) ==
  IF ~proofValid THEN "InvalidProof"
  ELSE IF account = ZeroAddress THEN "ERC721InvalidReceiver"
  ELSE ""

\* GreenWebVerifier.verify: the error it reverts with, "" when it succeeds.
\* onlyVerified rejects a proof that is not the prover's; the require rejects
\* a token id that has an owner; _safeMint rejects the zero address.
VerifyRevertReason(tokenOwner_, proofValid, landId, account) ==
  IF ~proofValid THEN "InvalidProof"
  ELSE IF tokenOwner_[TokenId(landId)] # ZeroAddress THEN AlreadyVerified
  ELSE IF account = ZeroAddress THEN "ERC721InvalidReceiver"
  ELSE ""

\* The LandOwnership struct verify stores (block.timestamp is not modelled).
LandOwnership(ownerName, landId, landPortion, account) ==
  [ownerName |-> ownerName, landId |-> landId, landPortion |-> landPortion,
   verifiedOwner |-> account]

\* One call verify(proof, ownerName, landId, landPortion, account).
Verify(proofValid, ownerName, landId, landPortion, account) ==
  LET tokenId == TokenId(landId)
      reason == VerifyRevertReason(tokenOwner, proofValid, landId, account)
  IN  /\ lastVerify' = [landId |-> landId, account |-> account, reason |-> reason]
      /\ IF reason = ""
         THEN /\ landRecords' = [landRecords EXCEPT ![tokenId] =
                   LandOwnership(ownerName, landId, landPortion, account)]
              /\ landIdToTokenId' = [landIdToTokenId EXCEPT ![landId] = tokenId]
              /\ tokenOwner' = [tokenOwner EXCEPT ![tokenId] = account]
              /\ landOwnershipVerified' = Append(landOwnershipVerified,
                   [tokenId |-> tokenId, landId |-> landId, verifiedOwner |-> account])
         ELSE UNCHANGED <<landRecords, landIdToTokenId, tokenOwner, landOwnershipVerified>>
      /\ UNCHANGED <<pureVars, ledgerVars, beaconVars, backendVars, listenerVars>>
      /\ UNCHANGED <<callVars, eventStoreVars>>

\* ERC721.transferFrom by the token's owner: the token changes hands.
TransferFrom(tokenId, to) ==
  /\ tokenOwner[tokenId] \notin {ZeroAddress, to}
  /\ tokenOwner' = [tokenOwner EXCEPT ![tokenId] = to]
  /\ UNCHANGED <<landRecords, landIdToTokenId, landOwnershipVerified, lastVerify>>
  /\ UNCHANGED <<pureVars, ledgerVars, beaconVars, backendVars, listenerVars>>
  /\ UNCHANGED <<callVars, eventStoreVars>>

OwnerNames == {"Alice Johnson"}
LandPortions == {2500, 5000}

WebVerifierNext ==
  \/ \E proofValid \in BOOLEAN, ownerName \in OwnerNames, landId \in LandIds,
        landPortion \in LandPortions, account \in Holders \cup {ZeroAddress} :
       Verify(proofValid, ownerName, landId, landPortion, account)
  \/ \E tokenId \in TokenIds, to \in Holders : TransferFrom(tokenId, to)

WebVerifierInit ==
  PureIdle /\ SystemIdle /\ ListenerIdle /\ OthersIdle /\ tokenVeriGreen = VeriGreenAddress

WebVerifierSpec == WebVerifierInit /\ [][WebVerifierNext]_vars

(***************************************************************************)
(* VeriGreenService: storing the contract's events.                        *)
(***************************************************************************)
EventNames == {"Transfer", "Mint"}
TransactionHashes == {"0xaa", "0xbb"}

\* The EventData the contract service hands to the registered handler.
EventDatas == [eventName : EventNames, transactionHash : TransactionHashes]

\* formatEventData: the record to store, its type spelled in capitals.
formatEventData(eventData) ==
  [type |-> CASE eventData.eventName = "Transfer" -> "TRANSFER"
              [] eventData.eventName = "Approval" -> "APPROVAL"
              [] eventData.eventName = "Mint" -> "MINT"
              [] eventData.eventName = "Burn" -> "BURN",
   transactionHash |-> eventData.transactionHash]

\* prisma.contractEvent.findFirst({where: {transactionHash, type}}): whether
\* the collection holds such a row.
FindFirst(rows, formattedData) ==
  \E i \in DOMAIN rows :
    /\ rows[i].transactionHash = formattedData.transactionHash
    /\ rows[i].type = formattedData.type

EventStoreUnchanged ==
  /\ UNCHANGED <<pureVars, ledgerVars, beaconVars, backendVars, listenerVars>>
  /\ UNCHANGED <<callVars, webVerifierVars>>

\* The handler is invoked with an event: handleEvent formats it and
\* saveEventToDatabase issues findFirst, then waits.
handleEvent(d, eventData) ==
  /\ handler[d].pc = "idle"
  /\ handler' = [handler EXCEPT ![d] =
       [pc |-> "findFirst", event |-> formatEventData(eventData), existingEvent |-> FALSE]]
  /\ UNCHANGED contractEvents
  /\ EventStoreUnchanged

\* findFirst answers: with a row the invocation returns, without one it
\* issues create and waits again.
FindFirstReturns(d) ==
  /\ handler[d].pc = "findFirst"
  /\ LET existingEvent == FindFirst(contractEvents, handler[d].event)
     IN  handler' = [handler EXCEPT ![d].existingEvent = existingEvent,
                                    ![d].pc = IF existingEvent THEN "done" ELSE "create"]
  /\ UNCHANGED contractEvents
  /\ EventStoreUnchanged

\* create answers: the row is in the collection.
ContractEventCreated(d) ==
  /\ handler[d].pc = "create"
  /\ contractEvents' = Append(contractEvents, handler[d].event)
  /\ handler' = [handler EXCEPT ![d].pc = "done"]
  /\ EventStoreUnchanged

\* findFirst or create rejects: saveEventToDatabase rethrows, handleEvent logs.
DatabaseFails(d) ==
  /\ handler[d].pc \in {"findFirst", "create"}
  /\ handler' = [handler EXCEPT ![d].pc = "failed"]
  /\ UNCHANGED contractEvents
  /\ EventStoreUnchanged

EventStoreNext ==
  \E d \in Deliveries :
    \/ \E eventData \in EventDatas : handleEvent(d, eventData)
    \/ FindFirstReturns(d)
    \/ ContractEventCreated(d)
    \/ DatabaseFails(d)

EventStoreInit ==
  PureIdle /\ SystemIdle /\ ListenerIdle /\ OthersIdle /\ tokenVeriGreen = VeriGreenAddress

EventStoreSpec == EventStoreInit /\ [][EventStoreNext]_vars

(***************************************************************************)
(* Properties.                                                             *)
(***************************************************************************)
\* The Submission rows stored for the claim of invocation p: the row carries
\* the claimant and the parcel's coordinates.
RowsOf(p) ==
  {i \in DOMAIN submissions :
     /\ submissions[i].user_address = pipe[p].owner
     /\ submissions[i].coordinates = pipe[p].coordinates}

\* C1: a randomness request's promise is resolved only by the
\* RandomNumberGenerated event that answers that request: the sequence number
\* of the resolving event is the one the beacon gave the request's own nonce.
C1_ResolvedOnlyByOwnRequest ==
  \A p \in Pipelines :
    pipe[p].resolvedBy # <<>> =>
      randomNumberRequested[pipe[p].resolvedBy[1]] = p

\* C2: checkGreennes(indexes, tiles) returns true exactly when every sampled
\* cell, tiles[i mod |tiles|] for each i of indexes, has health_score > 0.57.
C2_VerdictIsConjunctionOverSample ==
  verdict # <<>> =>
    verdict[1] = [threw |-> FALSE,
                  valid |-> \A k \in DOMAIN indexes :
                              tiles[(indexes[k] % Len(tiles)) + 1] > Threshold]

\* C3: two calls of deriveNumbers with identical inputs return the identical
\* sequence of indices.
C3_DeriveNumbersDeterministic ==
  Len(derived) = 2 => derived[1] = derived[2]

\* C4: every index of the sample verifyClaim derives and hands to checkGreennes
\* is an integer of [0, g), g the size of the claim's grid.
C4_SampleInRange ==
  \A p \in Pipelines :
    \A k \in DOMAIN pipe[p].indexes :
      pipe[p].indexes[k] \in 0..(Len(pipe[p].forest_grid) - 1)

\* C5: a getRandomNumber call that waits for its resolving event does not wait
\* forever: the wait ends, by the event or by a timeout.
C5_RandomnessWaitEnds ==
  \A p \in Pipelines :
    (pipe[p].pc = "awaitRandom") ~> (pipe[p].pc # "awaitRandom")

\* C6: when a step of a claim's pipeline fails (grid fetch, randomness, ledger),
\* the invocation still leaves a failure record, valid = false, for the claim.
C6_FailureRecordPersisted ==
  \A p \in Pipelines :
    pipe[p].pc = "done" /\ pipe[p].error \notin {"", "create"} =>
      \E i \in RowsOf(p) : submissions[i].valid = FALSE

\* C7: the store never holds two Submission rows of one (claimant, parcel) pair
\* with conflicting verdicts.
C7_NoConflictingRecords ==
  \A i, j \in DOMAIN submissions :
    /\ submissions[i].user_address = submissions[j].user_address
    /\ submissions[i].coordinates = submissions[j].coordinates
    => submissions[i].valid = submissions[j].valid

\* C8: a (claimant, parcel) pair is committed as valid at most once: the ledger
\* emits at most one LandTilesVerified, and mints one reward, per pair.
C8_CommittedValidAtMostOnce ==
  \A a \in Accounts, f \in ForestIds :
    Cardinality({i \in DOMAIN landTilesVerified :
                   landTilesVerified[i].owner = a /\ landTilesVerified[i].forestId = f}) <= 1

\* C9: the ledger commit is in flight for an invocation only when its verdict,
\* checkGreennes of its sample and grid, is valid; an invocation whose verdict
\* is invalid is never committing and carries no transaction reference.
C9_CommitOnlyWhenValid ==
  \A p \in Pipelines :
    /\ pipe[p].pc = "verifyTilesInLand" =>
         /\ pipe[p].valid
         /\ checkGreennes(pipe[p].indexes, pipe[p].forest_grid)
              = [threw |-> FALSE, valid |-> TRUE]
    /\ pipe[p].evaluated /\ ~pipe[p].valid =>
         /\ pipe[p].pc \in {"create", "done"}
         /\ pipe[p].transactionHash = NoHash

\* C9 witness: one invocation is committing its valid verdict while another
\* has stored its invalid verdict without any commit on the ledger.
C9_Witness ==
  \E p, q \in Pipelines :
    /\ pipe[p].pc = "verifyTilesInLand"
    /\ pipe[q].pc = "done" /\ pipe[q].evaluated /\ ~pipe[q].valid /\ pipe[q].error = ""
    /\ landTilesVerified = <<>>

\* C10: an invocation that reached a verdict and returned has left a Submission
\* row carrying that verdict (unless the database itself refused the row).
C10_VerdictPersisted ==
  \A p \in Pipelines :
    pipe[p].pc = "done" /\ pipe[p].evaluated /\ pipe[p].error # "create" =>
      \E i \in RowsOf(p) : submissions[i].valid = pipe[p].valid

\* The step that follows step a of verifyClaim when a completes without error.
FollowingSteps(a, valid) ==
  CASE a = "idle" -> {"getTiles"}
    [] a = "getTiles" -> {"requestRandomNumber"}
    [] a = "requestRandomNumber" -> {"startListeners"}
    [] a = "startListeners" -> {"awaitRandom"}
    [] a = "awaitRandom" -> {"resolved"}
    [] a = "resolved" -> IF valid THEN {"verifyTilesInLand"} ELSE {"create"}
    [] a = "verifyTilesInLand" -> {"create"}
    [] a = "create" -> {"done"}
    [] OTHER -> {}

\* The Submission row i carries the reference of a commit the ledger executed
\* for the row's claimant and commitment hash.
CommitConfirmed(row) ==
  /\ row.transactionHash # NoHash
  /\ row.transactionHash[2] \in DOMAIN landTilesVerified
  /\ landTilesVerified[row.transactionHash[2]].owner = row.user_address
  /\ landTilesVerified[row.transactionHash[2]].tilesHash = row.tileHash

\* C11: within one invocation the steps occur strictly in the order grid
\* fetch, randomness request and response, sample derivation and evaluation,
\* ledger commit (valid verdicts only), record; a step starts only when the
\* one before it has delivered its result, an invocation leaves the order only
\* by failing, and the record of a valid verdict is written only after the
\* ledger has executed the commit.
C11_StepsInOrder ==
  [][/\ \A p \in Pipelines :
          pipe'[p].pc # pipe[p].pc =>
            \/ pipe'[p].pc = "done" /\ pipe'[p].error # ""
            \/ /\ pipe'[p].pc \in FollowingSteps(pipe[p].pc, pipe'[p].valid)
               /\ pipe'[p].pc = "requestRandomNumber" => pipe'[p].forest_grid # <<>>
               /\ pipe'[p].pc = "resolved" => pipe'[p].randomNumber # <<>>
               /\ pipe[p].pc = "resolved" => pipe'[p].evaluated
               /\ pipe'[p].pc = "done" => pipe'[p].error = ""
     /\ submissions' # submissions =>
          \E p \in Pipelines :
            /\ pipe[p].pc = "create" /\ pipe'[p].pc = "done"
            /\ pipe[p].evaluated
            /\ submissions' = Append(submissions, submissions'[Len(submissions')])
            /\ submissions'[Len(submissions')].valid = pipe[p].valid
            /\ pipe[p].valid => CommitConfirmed(submissions'[Len(submissions')])
    ]_vars

\* C11 witness: an invocation went through every step, commit included, and
\* its record is stored.
C11_Witness ==
  \E p \in Pipelines :
    /\ pipe[p].pc = "done" /\ pipe[p].error = "" /\ pipe[p].valid
    /\ \E i \in RowsOf(p) : CommitConfirmed(submissions[i])

\* Invocation p has failed, or stalls waiting for randomness.
FailedOrStalled(p) ==
  \/ pipe[p].pc = "done" /\ pipe[p].error # ""
  \/ pipe[p].pc = "awaitRandom"

\* The numbers the beacon generated for the request invocation q made.
OwnRandomNumbers(q) ==
  {e.randomNumber : e \in {g \in randomNumberGenerated :
                             randomNumberRequested[g.sequenceNumber] = q}}

\* C12: whatever fails or stalls in another invocation, the seed an
\* invocation works with is the number the beacon generated for its own
\* request, and the record it stores carries that seed.
C12_OtherPipelineDoesNotChangeSeed ==
  \A p, q \in Pipelines :
    p # q /\ FailedOrStalled(p) =>
      /\ pipe[q].randomNumber # <<>> => pipe[q].randomNumber[1] \in OwnRandomNumbers(q)

\* Invocation p's randomness request has resolved: verifyClaim holds its number.
RequestResolved(p) ==
  pipe[p].pc \in {"resolved", "verifyTilesInLand", "create"}

\* C15: numberHashes holds an entry for a request only while that request is
\* unresolved: the entry is removed when the request resolves, so once every
\* request has resolved the table is empty.
C15_NumberHashesOnlyUnresolved ==
  \A e \in numberHashes : ~RequestResolved(e.userRandomNumber)

\* C16: a verifyTilesInLand call for a forestId that is not the parcel
\* registered for the account is rejected with LandIsNotVerified: the ledger's
\* verified-parcel table, balances and events are as before the call, the
\* invocation ends with that error, and it never attempts the commit again.
C16_UnregisteredParcelRejected ==
  [][\A p \in Pipelines :
       /\ /\ pipe[p].pc = "verifyTilesInLand"
          /\ userLands[pipe[p].owner] # pipe[p].forestId
          /\ pipe'[p].pc # "verifyTilesInLand"
          => /\ pipe'[p].pc = "done"
             /\ pipe'[p].error \in {"LandIsNotVerified", "transport"}
             /\ UNCHANGED <<userLands, verifiedUserLandsWithTiles, minted, landTilesVerified>>
       /\ pipe[p].error = "LandIsNotVerified" =>
            /\ pipe'[p] = pipe[p]
            /\ pipe[p].pc = "done"
    ]_vars

\* C16 witness: the ledger rejected an invocation's commit with
\* LandIsNotVerified and nothing was verified or minted.
C16_Witness ==
  \E p \in Pipelines :
    /\ pipe[p].error = "LandIsNotVerified"
    /\ userLands[pipe[p].owner] # pipe[p].forestId
    /\ landTilesVerified = <<>>
    /\ \A a \in Accounts : minted[a] = 0

\* Invocation p holds a valid verdict and the commitment hash made for it.
HoldsCommitment(p) ==
  pipe[p].pc \in {"verifyTilesInLand", "create"} /\ pipe[p].valid

\* C17: the commitment hash of a valid verdict is a function of the sampled
\* cells, in sample order: two valid verdicts over one grid whose samples
\* differ, in cells or in order, have different hash inputs.
C17_HashFollowsSample ==
  \A p, q \in Pipelines :
    /\ HoldsCommitment(p) /\ HoldsCommitment(q)
    /\ pipe[p].forest_grid = pipe[q].forest_grid
    /\ pipe[p].indexes # pipe[q].indexes
    => pipe[p].tileHash # pipe[q].tileHash

\* C18: the verdict is monotonic in the health scores: when checkGreennes
\* returns true for a sample and a grid, it returns true for the same sample
\* and the grid with the health_score of any one cell raised.
C18_VerdictMonotonic ==
  \A i \in DOMAIN raisedVerdict :
    verdict[1] = [threw |-> FALSE, valid |-> TRUE] =>
      raisedVerdict[i].result = [threw |-> FALSE, valid |-> TRUE]

\* C18 witness: a true verdict over a non-empty sample, and a true verdict
\* again after the score of a sampled cell was raised strictly.
C18_Witness ==
  /\ verdict = <<[threw |-> FALSE, valid |-> TRUE]>>
  /\ \E i \in DOMAIN raisedVerdict :
       /\ \E k \in DOMAIN indexes : indexes[k] % Len(tiles) = raisedVerdict[i].cell
       /\ raisedVerdict[i].health_score > tiles[raisedVerdict[i].cell + 1]
       /\ raisedVerdict[i].result.valid

\* The ledger executed a commit of the commitment hash the row carries, for the
\* row's claimant.
CommitExecutedFor(row) ==
  /\ row.tileHash # NoHash
  /\ \E n \in DOMAIN landTilesVerified :
       /\ landTilesVerified[n].owner = row.user_address
       /\ landTilesVerified[n].tilesHash = row.tileHash

\* C19: in every stored Submission transactionHash is non-empty exactly when
\* the ledger commit of that record's verdict was submitted and executed, it
\* is then the reference of that commit, and a record with valid = false has
\* an empty transactionHash.
C19_TransactionHashIffCommitted ==
  \A i \in DOMAIN submissions :
    /\ submissions[i].transactionHash # NoHash <=> CommitExecutedFor(submissions[i])
    /\ submissions[i].transactionHash # NoHash => CommitConfirmed(submissions[i])
    /\ ~submissions[i].valid => submissions[i].transactionHash = NoHash

\* C19 witness: a stored valid record with the reference of its commit, and a
\* stored invalid record without any.
C19_Witness ==
  \E i, j \in DOMAIN submissions :
    /\ submissions[i].valid /\ CommitConfirmed(submissions[i])
    /\ ~submissions[j].valid /\ submissions[j].transactionHash = NoHash

\* The invocations that stored their record and returned.
Persisted == {p \in Pipelines : pipe[p].pc = "done" /\ pipe[p].error = ""}

C13_ReconnectAttemptsBounded ==
  [][/\ failedInARow' <= MAX_RECONNECT_ATTEMPTS
     /\ fatalThrown =>
          /\ fatalThrown'
          /\ ~isConnected'
          /\ created' = created /\ failedInARow' = failedInARow
          /\ invocations' \in {invocations, NotAttached}
    ]_vars

\* No reconnect is under way: no timer is scheduled and no callback suspended.
ReconnectSettled ==
  reconnectTimers = 0 /\ awaitingDestroy = 0 /\ awaitingInit = 0

\* C14: after any number of successful reconnects every callback registered
\* through listenToEvent and not removed is attached exactly once to the
\* current transport, and one emitted event invokes each registered callback
\* at most once (exactly once when the transport is open).
C14_HandlersAttachedOnce ==
  /\ ReconnectSettled /\ isConnected =>
       \A cb \in eventListeners : providers[wsProvider].attached[cb] = 1
  /\ \A cb \in Callbacks : invocations[cb] <= 1

\* The transport has stayed connected: the constructor's provider is the
\* current one and its socket is open.
StayedConnected ==
  created = 1 /\ wsProvider = 1 /\ providers[1].socket = "open"

\* C21: while the transport stays connected, every event the feed delivers
\* invokes each registered callback at least once, and a callback is invoked
\* with the events in the order the feed delivers them (never with an event
\* older than one it was already invoked with).
C21_DeliveredInOrderAtLeastOnce ==
  [][\A id \in ProviderIds :
       StayedConnected /\ providers'[id].delivered # providers[id].delivered =>
         /\ id = wsProvider
         /\ providers'[id].delivered = providers[id].delivered + 1
         /\ \A cb \in eventListeners :
              /\ providers[id].attached[cb] >= 1
              /\ highest[cb] < providers'[id].delivered
              /\ highest'[cb] = providers'[id].delivered
    ]_vars

\* C21 witness: the transport never failed and the registered callback was
\* invoked with both events of the feed.
C21_Witness ==
  /\ StayedConnected
  /\ emitted = MaxEvents
  /\ providers[1].delivered = MaxEvents
  /\ \E cb \in eventListeners : highest[cb] = MaxEvents /\ invocations[cb] = 1

\* C22: a verifyTilesInLand call by the owner for the parcel registered to
\* the account, the token's veriGreen being this VeriGreen contract, succeeds:
\* the tiles hash is stored and one rewardAmount is minted to the account.
C22_VerifiedLandownerRewarded ==
  [][/\ calls' # calls
     /\ lastCall'.function = "verifyTilesInLand"
     /\ lastCall'.sender = OwnerAddress
     /\ userLands[lastCall'.account] = lastCall'.forestId
     /\ tokenVeriGreen = VeriGreenAddress
     => /\ lastCall'.reason = ""
        /\ verifiedUserLandsWithTiles'[lastCall'.account][lastCall'.forestId] # NoHash
        /\ minted'[lastCall'.account] = minted[lastCall'.account] + 1
    ]_vars

\* C27: GreenToken.mint succeeds only for the token owner and the configured
\* veriGreen address; from any other sender it reverts with "Not authorized!"
\* and no balance changes.
C27_MintOnlyOwnerOrVeriGreen ==
  [][calls' # calls /\ lastCall'.function = "mint" =>
       IF lastCall'.sender \in {TokenOwnerAddress, tokenVeriGreen}
       THEN lastCall'.reason \in {"", "Not authorized!"}
       ELSE lastCall'.reason = "Not authorized!" /\ minted' = minted
    ]_vars

\* A LandClaimed event records that verifyLand(account, forestId) succeeded.
WasRegistered(account, forestId) ==
  \E e \in landClaimed : e.owner = account /\ e.forestId = forestId

\* C28: once verifyLand(account, f) has succeeded, and until (account, f) is
\* verified, verifyTilesInLand(account, f, h) by the owner does not revert
\* with LandIsNotVerified, whatever verifyLand calls happened in between.
C28_RegistrationStable ==
  [][/\ calls' # calls
     /\ lastCall'.function = "verifyTilesInLand"
     /\ lastCall'.sender = OwnerAddress
     /\ WasRegistered(lastCall'.account, lastCall'.forestId)
     /\ verifiedUserLandsWithTiles[lastCall'.account][lastCall'.forestId] = NoHash
     => lastCall'.reason # "LandIsNotVerified"
    ]_vars

\* The ledger state a reverted call must leave as it was.
LedgerUntouched ==
  UNCHANGED <<userLands, verifiedUserLandsWithTiles, minted, landClaimed, landTilesVerified>>

\* C29: verifyLand runs only for greenVerifier and verifyTilesInLand only for
\* the owner; from any other sender the call reverts, userLands,
\* verifiedUserLandsWithTiles and balances are unchanged and no event is emitted.
C29_OnlyVerifierAndOwner ==
  [][calls' # calls =>
       /\ lastCall'.function = "verifyLand" =>
            IF lastCall'.sender = VerifierAddress
            THEN lastCall'.reason = ""
            ELSE lastCall'.reason = "NotValidProver" /\ LedgerUntouched
       /\ lastCall'.function = "verifyTilesInLand" /\ lastCall'.sender # OwnerAddress =>
            lastCall'.reason = "OwnableUnauthorizedAccount" /\ LedgerUntouched
       /\ lastCall'.function = "verifyTilesInLand" /\ lastCall'.reason = "" =>
            lastCall'.sender = OwnerAddress
    ]_vars

\* C29 witness: with a parcel registered, verifyTilesInLand by a sender other
\* than the owner has reverted and nothing was verified or minted; before it,
\* verifyLand by greenVerifier had run.
C29_Witness ==
  /\ lastCall # NoCall
  /\ lastCall.function = "verifyTilesInLand"
  /\ lastCall.sender = VerifierAddress
  /\ lastCall.reason = "OwnableUnauthorizedAccount"
  /\ userLands[lastCall.account] = lastCall.forestId
  /\ landTilesVerified = <<>>

\* How many LandOwnershipVerified events, one per mint, carry landId.
MintsOf(landId) ==
  Cardinality({i \in DOMAIN landOwnershipVerified :
                 landOwnershipVerified[i].landId = landId})

\* C23: the token id of a parcel is TokenId(landId), each landId has at most one
\* minted token and one land record, and a verify call for a landId whose
\* token exists reverts and leaves landRecords, landIdToTokenId and the
\* tokens' owners as they were.
C23_OneTokenPerLandId ==
  /\ [](\A landId \in LandIds :
          /\ landIdToTokenId[landId] \in {NoTokenId, TokenId(landId)}
          /\ MintsOf(landId) <= 1
          /\ tokenOwner[TokenId(landId)] # ZeroAddress <=> MintsOf(landId) = 1
          /\ landRecords[TokenId(landId)] # NoRecord <=> MintsOf(landId) = 1
          /\ landRecords[TokenId(landId)] # NoRecord =>
               landRecords[TokenId(landId)].landId = landId)
  /\ [][lastVerify' # lastVerify /\ tokenOwner[TokenId(lastVerify'.landId)] # ZeroAddress =>
          /\ lastVerify'.reason \in {AlreadyVerified, "InvalidProof"}
          /\ UNCHANGED <<landRecords, landIdToTokenId, tokenOwner, landOwnershipVerified>>
      ]_vars

\* C23 witness: a second verify for a parcel whose token exists, and was handed
\* to another holder, has reverted; the parcel's first record stands.
C23_Witness ==
  /\ lastVerify # NoCall
  /\ lastVerify.reason = AlreadyVerified
  /\ MintsOf(lastVerify.landId) = 1
  /\ tokenOwner[TokenId(lastVerify.landId)] #
       landRecords[TokenId(lastVerify.landId)].verifiedOwner
  /\ lastVerify.account \notin {ZeroAddress, tokenOwner[TokenId(lastVerify.landId)]}

\* C24: no two stored ContractEvent rows have the same transaction hash and
\* type, however the deliveries to handleEvent interleave.
C24_NoDuplicateContractEvents ==
  \A i, j \in DOMAIN contractEvents :
    (/\ contractEvents[i].transactionHash = contractEvents[j].transactionHash
     /\ contractEvents[i].type = contractEvents[j].type) => i = j

\* Invocation p's request waits at the beacon: no RandomNumberGenerated event
\* has answered it.
RequestPending(p) ==
  \E r \in beaconPending : r.userRandomNumber = p

\* C25: the RandomNumberGenerated event that answers a getRandomNumber call's
\* request is observed by that call: the event is never emitted before the
\* call's listener is registered, so a call that waits for its number has its
\* own answer still to come.
C25_AnswerNeverPrecedesListener ==
  \A p \in Pipelines :
    pipe[p].pc = "awaitRandom" => RequestPending(p)

\* C26: one transport failure triggers at most one reconnect attempt: at most
\* one reconnect timer is pending or running up to its initializeWebSocket, so
\* no two initializeWebSocket runs overlap, also when the failure raises both
\* 'error' and 'close'.
C26_OneReconnectPerFailure ==
  reconnectTimers + awaitingDestroy <= 1

\* C30: checkGreennes returns a boolean and raises nothing for every non-empty
\* grid and every sample, also when the grid has fewer cells than the sample
\* has indices.
C30_CheckGreennesNeverRaises ==
  \A i \in DOMAIN verdict :
    Len(tiles) > 0 => ~verdict[i].threw /\ verdict[i].valid \in BOOLEAN

=============================================================================
